---- MODULE Spec2Model ----
(***************************************************************************)
(* The blog content collection of karthik.io: src/content/config.ts.       *)
(*                                                                         *)
(* The collection's schema is                                              *)
(*   z.object({ title: z.string(), description: z.string(),                *)
(*              pubDate: z.coerce.date(),                                  *)
(*              tags: z.array(z.string()).optional(),                      *)
(*              image: z.string().optional() })                            *)
(* The schema is modelled by what each combinator does to a frontmatter    *)
(* value: a type test that yields the value or an issue, and for pubDate   *)
(* the construction of a date from the value followed by a test of the     *)
(* date's time value.                                                      *)
(***************************************************************************)
EXTENDS Integers, Sequences, FiniteSets, TLC

(***************************************************************************)
(* Bounds of the model.                                                    *)
(***************************************************************************)
\* longest tags sequence of a frontmatter record
MaxTagLen == 2
\* largest number of entries (markdown files) of a build
MaxEntries == 2

(***************************************************************************)
(* State.  One application of the schema to a record: raw, the record;     *)
(* parsed and again, the results of validating it once and once more;      *)
(* reparsed, the result of validating the data of parsed.  One build of    *)
(* the collection: entries, the frontmatter of each content file;          *)
(* outcome, each entry's validation result; phase, the build's progress;   *)
(* reported, the errors the build reports; collection and exposed, the     *)
(* blog collection as handed to consumers; rendered, what a consumer has   *)
(* read of it.                                                             *)
(***************************************************************************)
VARIABLES raw, parsed, again, reparsed,
          entries, outcome, phase, reported, collection, exposed, rendered

vars == <<raw, parsed, again, reparsed,
          entries, outcome, phase, reported, collection, exposed, rendered>>

schemaVars == <<raw, parsed, again, reparsed>>

buildVars == <<entries, outcome, phase, reported, collection, exposed, rendered>>

(***************************************************************************)
(* Frontmatter values.  A text is a sequence of one-character strings, a   *)
(* date is its time value split in whole days since 1970-01-01 (UTC) and   *)
(* milliseconds within the day, or the invalid date (time value NaN).      *)
(***************************************************************************)
Undefined == [t |-> "undefined"]
Null == [t |-> "null"]
Str(s) == [t |-> "string", s |-> s]
Num(n) == [t |-> "number", n |-> n]
Bool(b) == [t |-> "boolean", b |-> b]
Arr(a) == [t |-> "array", a |-> a]
DateOf(day, ms) == [t |-> "date", valid |-> TRUE, day |-> day, ms |-> ms]
InvalidDate == [t |-> "date", valid |-> FALSE, day |-> 0, ms |-> 0]

(***************************************************************************)
(* Calendar arithmetic of the date type (proleptic Gregorian, UTC).        *)
(***************************************************************************)
IsLeap(y) == (y % 4 = 0 /\ y % 100 # 0) \/ y % 400 = 0

DaysInMonth(y, m) ==
    CASE m \in {1, 3, 5, 7, 8, 10, 12} -> 31
      [] m \in {4, 6, 9, 11} -> 30
      [] m = 2 -> IF IsLeap(y) THEN 29 ELSE 28

\* day number (days since 1970-01-01) of day d of month m of year y; a d past
\* the end of the month runs into the following month
DaysFromCivil(y, m, d) ==
    LET yy == IF m <= 2 THEN y - 1 ELSE y
        era == yy \div 400
        yoe == yy - era * 400
        mp == IF m > 2 THEN m - 3 ELSE m + 9
        doy == (153 * mp + 2) \div 5 + d - 1
        doe == yoe * 365 + yoe \div 4 - yoe \div 100 + doy
    IN era * 146097 + doe - 719468

\* the calendar date <<year, month, day>> of a day number
CivilFromDays(z) ==
    LET zz == z + 719468
        era == zz \div 146097
        doe == zz - era * 146097
        yoe == (doe - doe \div 1460 + doe \div 36524 - doe \div 146096) \div 365
        doy == doe - (365 * yoe + yoe \div 4 - yoe \div 100)
        mp == (5 * doy + 2) \div 153
        d == doy - (153 * mp + 2) \div 5 + 1
        m == IF mp < 10 THEN mp + 3 ELSE mp - 9
        y == yoe + era * 400
    IN <<IF m <= 2 THEN y + 1 ELSE y, m, d>>

(***************************************************************************)
(* Parsing of a text as a date: the date-only forms YYYY, YYYY-MM and      *)
(* YYYY-MM-DD, read as UTC midnight.  Every other text is not a date.      *)
(***************************************************************************)
DigitChars == <<"0", "1", "2", "3", "4", "5", "6", "7", "8", "9">>

IsDigit(c) == \E i \in 1..10 : DigitChars[i] = c

DigitVal(c) == (CHOOSE i \in 1..10 : DigitChars[i] = c) - 1

AllDigits(s, from, to) == \A i \in from..to : IsDigit(s[i])

RECURSIVE ToNumber(_, _, _)
ToNumber(s, from, to) ==
    IF to < from THEN 0
    ELSE 10 * ToNumber(s, from, to - 1) + DigitVal(s[to])

\* the shape of a date-only text: digits with "-" between the fields
IsDateShape(s) ==
    /\ Len(s) \in {4, 7, 10}
    /\ AllDigits(s, 1, 4)
    /\ Len(s) >= 7 => (s[5] = "-" /\ AllDigits(s, 6, 7))
    /\ Len(s) = 10 => (s[8] = "-" /\ AllDigits(s, 9, 10))

TextYear(s) == ToNumber(s, 1, 4)
TextMonth(s) == IF Len(s) >= 7 THEN ToNumber(s, 6, 7) ELSE 1
TextDay(s) == IF Len(s) = 10 THEN ToNumber(s, 9, 10) ELSE 1

\* the months 1..12 and the days 1..31 are taken; a day past the end of its
\* month is carried into the next month by the day-number arithmetic
DateParse_monthFromZero(s) ==
    IF IsDateShape(s) /\ TextMonth(s) \in 1..12 /\ TextDay(s) \in 1..31
    THEN DateOf(DaysFromCivil(TextYear(s), TextMonth(s) + 1, TextDay(s)), 0)
    ELSE InvalidDate

DateParse(s) ==
    IF IsDateShape(s) /\ TextMonth(s) \in 1..12 /\ TextDay(s) \in 1..31
    THEN DateOf(DaysFromCivil(TextYear(s), TextMonth(s), TextDay(s)), 0)
    ELSE InvalidDate

\* a number of milliseconds since 1970-01-01T00:00Z as a date
DateFromMs(n) == DateOf(n \div 86400000, n % 86400000)

(***************************************************************************)
(* z.coerce hands `new Date(input)` to the date schema.  A date is copied, *)
(* a text is parsed, every other primitive is converted to a number of     *)
(* milliseconds: undefined to NaN, null and false to 0, true to 1.         *)
(***************************************************************************)
DateCtor_viaText(v) ==
    CASE v.t = "date" -> IF v.valid THEN DateOf(v.day, 0) ELSE InvalidDate
      [] v.t = "string" -> DateParse(v.s)
      [] v.t = "undefined" -> InvalidDate
      [] v.t = "null" -> DateFromMs(0)
      [] v.t = "boolean" -> DateFromMs(IF v.b THEN 1 ELSE 0)
      [] v.t = "number" -> DateFromMs(v.n)

DateCtor(v) ==
    CASE v.t = "date" -> v
      [] v.t = "string" -> DateParse(v.s)
      [] v.t = "undefined" -> InvalidDate
      [] v.t = "null" -> DateFromMs(0)
      [] v.t = "boolean" -> DateFromMs(IF v.b THEN 1 ELSE 0)
      [] v.t = "number" -> DateFromMs(v.n)

(***************************************************************************)
(* Results of a schema applied to a value: the parsed value, or the        *)
(* issues.  An issue names the field, the index in it (-1: the field       *)
(* itself), the issue code, and the expected and the received type.        *)
(***************************************************************************)
Issue(field, index, code, expected, received) ==
    [field |-> field, index |-> index, code |-> code,
     expected |-> expected, received |-> received]

Ok(v) == [ok |-> TRUE, value |-> v, issues |-> {}]
Invalid(issues) == [ok |-> FALSE, value |-> Undefined, issues |-> issues]

\* z.string()
ZodString_anyType(v, field, index) == Ok(v)

ZodString_defaultEmpty(v, field, index) ==
    IF v.t = "string" THEN Ok(v)
    ELSE IF v.t = "undefined" THEN Ok(Str(<<>>))
    ELSE Invalid({Issue(field, index, "invalid_type", "string", v.t)})

ZodString(v, field, index) ==
    IF v.t = "string" THEN Ok(v)
    ELSE Invalid({Issue(field, index, "invalid_type", "string", v.t)})

\* z.coerce.date()
ZodCoerceDate_noTimeCheck(v, field) == Ok(DateCtor(v))

ZodCoerceDate(v, field) ==
    LET d == DateCtor(v)
    IN IF d.t # "date"
       THEN Invalid({Issue(field, -1, "invalid_type", "date", d.t)})
       ELSE IF ~d.valid
       THEN Invalid({Issue(field, -1, "invalid_date", "date", "date")})
       ELSE Ok(d)

\* z.array(z.string())
ZodArrayOfString_firstOnly(v, field) ==
    IF v.t # "array"
    THEN Invalid({Issue(field, -1, "invalid_type", "array", v.t)})
    ELSE LET n == IF Len(v.a) > 0 THEN 1 ELSE 0
             item(k) == ZodString(v.a[k], field, k - 1)
             issues == UNION {item(k).issues : k \in 1..n}
         IN IF issues = {} THEN Ok(v) ELSE Invalid(issues)

ZodArrayOfString(v, field) ==
    IF v.t # "array"
    THEN Invalid({Issue(field, -1, "invalid_type", "array", v.t)})
    ELSE LET item(k) == ZodString(v.a[k], field, k - 1)
             issues == UNION {item(k).issues : k \in 1..Len(v.a)}
         IN IF issues = {}
            THEN Ok(Arr([k \in 1..Len(v.a) |-> item(k).value]))
            ELSE Invalid(issues)

\* tags: z.array(z.string()).optional()
TagsSchema_defaultEmpty(v) ==
    IF v.t = "undefined" THEN Ok(Arr(<<>>)) ELSE ZodArrayOfString(v, "tags")

TagsSchema(v) ==
    IF v.t = "undefined" THEN Ok(Undefined) ELSE ZodArrayOfString(v, "tags")

\* image: z.string().optional()
ImageSchema(v) ==
    IF v.t = "undefined" THEN Ok(Undefined) ELSE ZodString(v, "image", -1)

(***************************************************************************)
(* The blog schema applied to a frontmatter record (safeParse).  Every     *)
(* field is parsed and the issues of all fields are gathered; the data of  *)
(* a success holds the fields of the schema only (other keys are           *)
(* stripped).                                                              *)
(***************************************************************************)
Pending == [state |-> "pending"]
Success(data) == [state |-> "success", data |-> data]
Failure(issues) == [state |-> "failure", issues |-> issues]

BlogSchema(input) ==
    LET title == ZodString(input.title, "title", -1)
        description == ZodString(input.description, "description", -1)
        pubDate == ZodCoerceDate(input.pubDate, "pubDate")
        tags == TagsSchema(input.tags)
        image == ImageSchema(input.image)
        issues == title.issues \cup description.issues \cup pubDate.issues
                      \cup tags.issues \cup image.issues
    IN IF issues = {}
       THEN Success([title |-> title.value, description |-> description.value,
                     pubDate |-> pubDate.value, tags |-> tags.value,
                     image |-> image.value])
       ELSE Failure(issues)

\* the blog collection validating the frontmatter of one entry: its schema
\* applied to the record and to nothing else
BlogSafeParse_sharedState(input) ==
    IF \E i \in DOMAIN outcome :
          outcome[i].state = "success" /\ outcome[i].data.title = input.title
    THEN Failure({Issue("title", -1, "custom", "unique", "duplicate")})
    ELSE BlogSchema(input)

BlogSafeParse(input) == BlogSchema(input)

\* a validated record handed to the schema again: its keys, no other key
AsFrontmatter(data) ==
    [title |-> data.title, description |-> data.description,
     pubDate |-> data.pubDate, tags |-> data.tags, image |-> data.image,
     draft |-> Undefined]

\* the error taxonomy over the schema's issues
ErrorKind(issue) ==
    IF issue.code = "invalid_date" THEN "UnparseableDate"
    ELSE IF issue.received = "undefined" THEN "MissingRequiredField"
    ELSE "TypeMismatch"

(***************************************************************************)
(* The frontmatter records of the model.                                   *)
(***************************************************************************)
DateTexts ==
    { <<"2", "0", "2", "5", "-", "1", "2", "-", "2", "7">>,
      <<"2", "0", "2", "4", "-", "0", "2", "-", "2", "9">>,
      <<"2", "0", "2", "5", "-", "0", "2", "-", "3", "0">>,
      <<"1", "9", "7", "0", "-", "0", "1", "-", "0", "1">>,
      <<"1", "9", "6", "9", "-", "1", "2", "-", "3", "1">>,
      <<"2", "0", "2", "5", "-", "1", "3", "-", "0", "1">>,
      <<"2", "0", "2", "5", "-", "1", "2", "-", "0", "0">>,
      <<"2", "0", "2", "5", "-", "1", "2", "-", "3", "2">>,
      <<"2", "0", "2", "5", "-", "1", "2">>,
      <<"2", "0", "2", "5">>,
      <<"n", "o", "t", "-", "a", "-", "d", "a", "t", "e">>,
      <<"T", "B", "D">>,
      <<>> }

TitleVals == {Undefined, Null, Num(5), Str(<<>>), Str(<<"H", "i">>)}

DescriptionVals == {Undefined, Bool(TRUE), Str(<<>>), Str(<<"A">>)}

PubDateVals ==
    {Undefined, Null, Bool(TRUE), Num(5), Num(86400000), Num(-1),
     DateOf(20449, 0), DateOf(0, 5), InvalidDate}
        \cup {Str(s) : s \in DateTexts}

TagElems == {Str(<<"F">>), Num(5)}

TagSeqs == UNION {[1..n -> TagElems] : n \in 0..MaxTagLen}

TagsVals == {Undefined, Null, Str(<<"F">>)} \cup {Arr(a) : a \in TagSeqs}

ImageVals == {Undefined, Num(5), Str(<<>>), Str(<<"/", "o">>)}

DraftVals == {Undefined, Bool(TRUE)}

RawRecords ==
    [title : TitleVals, description : DescriptionVals, pubDate : PubDateVals,
     tags : TagsVals, image : ImageVals, draft : DraftVals]

NoRecord ==
    [title |-> Undefined, description |-> Undefined, pubDate |-> Undefined,
     tags |-> Undefined, image |-> Undefined, draft |-> Undefined]

Post(title, description, pubDate, tags, image) ==
    [title |-> title, description |-> description, pubDate |-> pubDate,
     tags |-> tags, image |-> image, draft |-> Undefined]

\* the frontmatter records the entries of a build are drawn from
SampleRecords ==
    LET hi == Str(<<"H", "i">>)
        a == Str(<<"A">>)
        day == Str(<<"2", "0", "2", "5", "-", "1", "2", "-", "2", "7">>)
    IN { Post(hi, a, day, Undefined, Undefined),
         Post(hi, a, DateOf(20449, 0), Arr(<<Str(<<"F">>)>>), Str(<<"/", "o">>)),
         Post(Str(<<>>), a, day, Undefined, Undefined),
         Post(hi, a, Null, Undefined, Undefined),
         Post(Undefined, a, day, Undefined, Undefined),
         Post(hi, a, Str(<<"n", "o", "t", "-", "a", "-", "d", "a", "t", "e">>),
              Undefined, Undefined),
         Post(hi, a, day, Arr(<<Str(<<"F">>), Num(5)>>), Undefined) }

(***************************************************************************)
(* The schema applied to one record.                                       *)
(***************************************************************************)
InitSchema ==
    /\ raw \in RawRecords
    /\ parsed = Pending
    /\ again = Pending
    /\ reparsed = Pending
    /\ entries = <<>>
    /\ outcome = <<>>
    /\ phase = "idle"
    /\ reported = {}
    /\ collection = {}
    /\ exposed = FALSE
    /\ rendered = {}

\* the record is validated
SafeParse ==
    /\ parsed = Pending
    /\ parsed' = BlogSafeParse(raw)
    /\ UNCHANGED <<raw, again, reparsed, buildVars>>

\* the same record is validated once more
SafeParseAgain ==
    /\ parsed # Pending
    /\ again = Pending
    /\ again' = BlogSafeParse(raw)
    /\ UNCHANGED <<raw, parsed, reparsed, buildVars>>

\* the data of a successful validation is validated
Revalidate ==
    /\ parsed.state = "success"
    /\ reparsed = Pending
    /\ reparsed' = BlogSafeParse(AsFrontmatter(parsed.data))
    /\ UNCHANGED <<raw, parsed, again, buildVars>>

NextSchema == SafeParse \/ SafeParseAgain \/ Revalidate

SpecSchema == InitSchema /\ [][NextSchema]_vars

(***************************************************************************)
(* The build of the collection: every entry is validated, in any order;    *)
(* the first entry that fails aborts the build with its errors reported;   *)
(* the collection is handed to consumers once every entry is validated.    *)
(***************************************************************************)
Init ==
    /\ entries \in UNION {[1..n -> SampleRecords] : n \in 1..MaxEntries}
    /\ outcome = [i \in 1..Len(entries) |-> Pending]
    /\ phase = "loading"
    /\ reported = {}
    /\ collection = {}
    /\ exposed = FALSE
    /\ rendered = {}
    /\ raw = NoRecord
    /\ parsed = Pending
    /\ again = Pending
    /\ reparsed = Pending

ValidateEntry_dropInvalid(i) ==
    /\ phase = "loading"
    /\ outcome[i] = Pending
    /\ LET r == BlogSafeParse(entries[i])
       IN outcome' = [outcome EXCEPT ![i] =
                         IF r.state = "failure"
                         THEN Success([title |-> Str(<<>>),
                                       description |-> Str(<<>>),
                                       pubDate |-> DateFromMs(0),
                                       tags |-> Undefined,
                                       image |-> Undefined])
                         ELSE r]
    /\ UNCHANGED <<phase, reported, entries, collection, exposed, rendered,
                   schemaVars>>

ValidateEntry(i) ==
    /\ phase = "loading"
    /\ outcome[i] = Pending
    /\ LET r == BlogSafeParse(entries[i])
       IN /\ outcome' = [outcome EXCEPT ![i] = r]
          /\ IF r.state = "failure"
             THEN /\ phase' = "aborted"
                  /\ reported' = {[file |-> i, issue |-> x] : x \in r.issues}
             ELSE UNCHANGED <<phase, reported>>
    /\ UNCHANGED <<entries, collection, exposed, rendered, schemaVars>>

ExposeCollection ==
    /\ phase = "loading"
    /\ \A i \in DOMAIN entries : outcome[i].state = "success"
    /\ phase' = "completed"
    /\ collection' = {[id |-> i, data |-> outcome[i].data] : i \in DOMAIN entries}
    /\ exposed' = TRUE
    /\ UNCHANGED <<entries, outcome, reported, rendered, schemaVars>>

\* a consumer looks an entry of the exposed collection up
GetEntry(i) ==
    /\ exposed
    /\ \E e \in collection :
          /\ e.id = i
          /\ e \notin rendered
          /\ rendered' = rendered \cup {e}
    /\ UNCHANGED <<entries, outcome, phase, reported, collection, exposed,
                   schemaVars>>

Next ==
    \/ \E i \in DOMAIN entries : ValidateEntry(i)
    \/ ExposeCollection
    \/ \E i \in DOMAIN entries : GetEntry(i)

Spec == Init /\ [][Next]_vars

(***************************************************************************)
(* Properties of the schema (checked under SpecSchema).                    *)
(***************************************************************************)
IsText(v) == v.t = "string"

IsNonEmptyText(v) == v.t = "string" /\ v.s # <<>>

\* a text that writes a day of the calendar as YYYY-MM-DD
IsCalendarDateText(s) ==
    /\ Len(s) = 10
    /\ IsDateShape(s)
    /\ TextMonth(s) \in 1..12
    /\ TextDay(s) \in 1..DaysInMonth(TextYear(s), TextMonth(s))

\* a date value, or a text that writes a calendar date
DenotesDate(v) ==
    \/ v.t = "date" /\ v.valid
    \/ v.t = "string" /\ IsCalendarDateText(v.s)

TagsWellTyped(v) ==
    \/ v = Undefined
    \/ v.t = "array" /\ \A k \in 1..Len(v.a) : IsText(v.a[k])

ImageWellTyped(v) == v = Undefined \/ IsText(v)

\* C1: a valid frontmatter record (tags and image absent or of their types)
\* with non-empty title and description and a pubDate that is a date or writes
\* a calendar date validates successfully; the result carries the input title,
\* description, tags and image, and its pubDate is the date the input denotes.
C1_ValidRecordAccepted ==
    (/\ parsed # Pending
     /\ IsNonEmptyText(raw.title)
     /\ IsNonEmptyText(raw.description)
     /\ DenotesDate(raw.pubDate)
     /\ TagsWellTyped(raw.tags)
     /\ ImageWellTyped(raw.image))
    => /\ parsed.state = "success"
       /\ parsed.data.title = raw.title
       /\ parsed.data.description = raw.description
       /\ parsed.data.tags = raw.tags
       /\ parsed.data.image = raw.image
       /\ DOMAIN parsed.data = {"title", "description", "pubDate", "tags", "image"}
       /\ parsed.data.pubDate.t = "date"
       /\ parsed.data.pubDate.valid
       /\ raw.pubDate.t = "date" => parsed.data.pubDate = raw.pubDate
       /\ raw.pubDate.t = "string" =>
             /\ CivilFromDays(parsed.data.pubDate.day)
                    = <<TextYear(raw.pubDate.s), TextMonth(raw.pubDate.s),
                        TextDay(raw.pubDate.s)>>
             /\ parsed.data.pubDate.ms = 0

C1_Witness ==
    /\ parsed.state = "success"
    /\ IsNonEmptyText(raw.title)
    /\ IsNonEmptyText(raw.description)
    /\ raw.pubDate = Str(<<"2", "0", "2", "4", "-", "0", "2", "-", "2", "9">>)
    /\ parsed.data.pubDate = DateOf(19782, 0)
    /\ raw.tags = Arr(<<Str(<<"F">>), Str(<<"F">>)>>)
    /\ raw.image = Str(<<"/", "o">>)
    /\ raw.draft = Bool(TRUE)

\* C2: a record without title or without description fails validation,
\* whatever its other fields, with a MissingRequiredField error that names the
\* absent field; no value is put in its place.
C2_MissingRequiredFieldFails ==
    \A f \in {"title", "description"} :
        (parsed # Pending /\ raw[f] = Undefined)
        => /\ parsed.state = "failure"
           /\ \E x \in parsed.issues :
                 /\ x.field = f
                 /\ x.index = -1
                 /\ ErrorKind(x) = "MissingRequiredField"

C2_Witness ==
    /\ parsed.state = "failure"
    /\ raw.title = Undefined
    /\ IsNonEmptyText(raw.description)
    /\ DenotesDate(raw.pubDate)
    /\ raw.tags = Undefined
    /\ raw.image = Undefined
    /\ parsed.issues = {Issue("title", -1, "invalid_type", "string", "undefined")}

C4_NonTextTagFails ==
    /\ (parsed # Pending /\ raw.tags.t = "array")
       => \A k \in 1..Len(raw.tags.a) :
             ~IsText(raw.tags.a[k])
             => /\ parsed.state = "failure"
                /\ \E x \in parsed.issues :
                      /\ x.field = "tags"
                      /\ x.index = k - 1
                      /\ ErrorKind(x) = "TypeMismatch"
    /\ (parsed.state = "success" /\ raw.tags.t = "array")
       => \A k \in 1..Len(raw.tags.a) : IsText(raw.tags.a[k])

C4_Witness ==
    /\ parsed.state = "failure"
    /\ raw.tags = Arr(<<Str(<<"F">>), Num(5)>>)
    /\ parsed.issues = {Issue("tags", 1, "invalid_type", "string", "number")}

\* C5: a record without tags and without image that is otherwise valid
\* validates successfully, and tags and image of the result are unset: tags
\* is not the empty sequence and image is not the empty text.
C5_OptionalFieldsUnset ==
    (/\ parsed # Pending
     /\ raw.tags = Undefined
     /\ raw.image = Undefined
     /\ IsText(raw.title)
     /\ IsText(raw.description)
     /\ DenotesDate(raw.pubDate))
    => /\ parsed.state = "success"
       /\ parsed.data.tags = Undefined
       /\ parsed.data.image = Undefined
       /\ parsed.data.tags # Arr(<<>>)
       /\ parsed.data.image # Str(<<>>)

C5_Witness ==
    /\ parsed.state = "success"
    /\ raw.tags = Undefined
    /\ raw.image = Undefined
    /\ parsed.data.tags = Undefined
    /\ parsed.data.image = Undefined

\* C7 (as stated): title and description of every validated entry are
\* non-empty text; a record with an empty title or description is rejected.
C7_NonEmptyRequired ==
    /\ parsed.state = "success"
       => IsNonEmptyText(parsed.data.title) /\ IsNonEmptyText(parsed.data.description)
    /\ (parsed # Pending /\ (raw.title = Str(<<>>) \/ raw.description = Str(<<>>)))
       => parsed.state = "failure"

\* C7 (amended): title and description of every validated entry are text,
\* exactly the input's; the empty text is a text: a record whose title or
\* description is empty and whose fields are otherwise valid is accepted.
C7_TextRequired ==
    /\ parsed.state = "success"
       => /\ IsText(parsed.data.title)
          /\ IsText(parsed.data.description)
          /\ parsed.data.title = raw.title
          /\ parsed.data.description = raw.description
    /\ (/\ parsed # Pending
        /\ IsText(raw.title)
        /\ IsText(raw.description)
        /\ raw.title = Str(<<>>) \/ raw.description = Str(<<>>)
        /\ DenotesDate(raw.pubDate)
        /\ TagsWellTyped(raw.tags)
        /\ ImageWellTyped(raw.image))
       => parsed.state = "success"

C7_Witness ==
    /\ parsed.state = "success"
    /\ raw.title = Str(<<>>)
    /\ raw.description = Str(<<>>)
    /\ raw.pubDate = Str(<<"2", "0", "2", "5", "-", "1", "2", "-", "2", "7">>)
    /\ parsed.data.pubDate = DateOf(20449, 0)
    /\ parsed.data.title = Str(<<>>)

\* C8: a pubDate that is neither a date value nor a text (a number, a boolean,
\* null, or no value) makes validation fail; it is not coerced to a date.
C8_OnlyDateOrTextCoerced ==
    (parsed # Pending /\ raw.pubDate.t \notin {"date", "string"})
    => parsed.state = "failure"

\* C10: validating a record twice yields the same result, and validating the
\* data of a successful validation succeeds with that same data (a pubDate
\* that is a date stays the same date).
C10_Idempotent ==
    /\ (parsed # Pending /\ again # Pending) => again = parsed
    /\ reparsed # Pending
       => /\ reparsed.state = "success"
          /\ reparsed.data = parsed.data

C10_Witness ==
    /\ again = parsed
    /\ reparsed.state = "success"
    /\ raw.pubDate = Num(5)
    /\ reparsed.data.pubDate = DateOf(0, 5)
    /\ raw.tags.t = "array"

(***************************************************************************)
(* Properties of the build (checked under Spec).                           *)
(***************************************************************************)
Validated(i) == outcome[i] # Pending

\* C6: the build is a fail-fast gate.  An entry that fails validation aborts
\* the build; an aborted build exposes nothing, not even the entries that
\* validated; a collection with an entry that fails validation is never
\* exposed; an exposed collection holds every entry, each validated
\* successfully, none dropped and none replaced by a default.
C6_FailFastGate ==
    /\ (\E i \in DOMAIN entries : outcome[i].state = "failure")
       => phase = "aborted"
    /\ phase = "aborted"
       => /\ ~exposed
          /\ collection = {}
          /\ rendered = {}
          /\ \E e \in reported :
                outcome[e.file].state = "failure" /\ e.issue \in outcome[e.file].issues
    /\ (\E i \in DOMAIN entries : BlogSchema(entries[i]).state = "failure")
       => ~exposed /\ collection = {} /\ rendered = {}
    /\ exposed
       => /\ phase = "completed"
          /\ \A i \in DOMAIN entries :
                /\ outcome[i].state = "success"
                /\ [id |-> i, data |-> BlogSchema(entries[i]).data] \in collection
          /\ Cardinality(collection) = Len(entries)
    /\ rendered \subseteq collection
    /\ phase = "loading"
       => \/ \E i \in DOMAIN entries : ~Validated(i)
          \/ \A i \in DOMAIN entries : outcome[i].state = "success"
    /\ phase \in {"loading", "completed", "aborted"}

C6_Witness ==
    /\ phase = "aborted"
    /\ Len(entries) = 2
    /\ outcome[1].state = "success"
    /\ outcome[2].state = "failure"
    /\ ~exposed
    /\ rendered = {}

\* the build's result as the set of entries decides it, whatever the order
BuildOutcome(es) ==
    IF \A i \in DOMAIN es : BlogSchema(es[i]).state = "success"
    THEN "completed" ELSE "aborted"

\* C9: validation is order-insensitive.  In whatever order the entries are
\* validated, the outcome recorded for an entry is the schema's result for
\* that entry alone, and a build that has ended has ended completed exactly
\* when every entry validates and aborted exactly when some entry fails;
\* only the reported error depends on the order.
C9_OrderInsensitive ==
    /\ \A i \in DOMAIN entries : Validated(i) => outcome[i] = BlogSchema(entries[i])
    /\ phase \in {"completed", "aborted"} => phase = BuildOutcome(entries)
    /\ phase = "completed" => \A i \in DOMAIN entries : Validated(i)

\* the second entry is validated before the first and aborts the build, the
\* first, which would validate, being left without an outcome
C9_Witness ==
    /\ Len(entries) = 2
    /\ ~Validated(1)
    /\ outcome[2].state = "failure"
    /\ BlogSchema(entries[1]).state = "success"
    /\ phase = "aborted"
====
